---------------------------- MODULE Spec2Model ----------------------------
(***************************************************************************)
(* A model of the cross-chain relayer (crates/relayer): the EventGenerator *)
(* polling loop, the ProofFetcher and its proving-service client, the      *)
(* EventDeliverer, and the RelayerApp supervisor that wires them with two  *)
(* bounded channels.                                                       *)
(*                                                                         *)
(* The specifications of the module:                                       *)
(*   Spec         the whole pipeline (generator, fetcher, deliverer, run)  *)
(*   FairSpecGen  the generator and the fetcher's receive loop, with the   *)
(*                fairness the runtime's scheduling gives them             *)
(*   SpecExtract  extract_event_details applied to every bounded receipt   *)
(*   SpecClient   ProofApiClient::fetch_proof against a scripted service   *)
(*   SpecDeliver  deliver_event applied to every bounded DeliveryRequest   *)
(*   SpecGenClosed     the generator with a receiver dropped under it      *)
(*   SpecFetch         the ProofFetcher fed events with and without hash   *)
(*   SpecBackpressure  the ProofFetcher with a full delivery channel       *)
(*   SpecNonce         the tasks that sign with the relayer key            *)
(*   FairSpecTicks     the generator with every step scheduled fairly      *)
(*   SpecWide          the generator with a chain id above u32::MAX        *)
(***************************************************************************)
EXTENDS Integers, Sequences, FiniteSets, TLC

VARIABLES
    cfg,          \* the loaded configuration: chains, relay_pairs, log level
    gen,          \* EventGenerator: position in start / check_all_chains
    pairLog,      \* what the generator did for the pair it last checked, this tick
    emitted,      \* every RelayEvent returned by extract_event_details
    event_ch,     \* the mpsc channel generator -> fetcher (event_tx / event_rx)
    fetcher,      \* ProofFetcher::start receive loop
    ftasks,       \* the fetch tasks spawned by ProofFetcher::start, still running
    delivery_ch,  \* the mpsc channel fetcher -> deliverer
    deliverer,    \* EventDeliverer::start receive loop
    dtasks,       \* the delivery tasks spawned by EventDeliverer::start, still running
    run,          \* RelayerApp::run: waiting in select!, or returned
    xin,          \* SpecExtract: the inputs of extract_event_details
    xout,         \* SpecExtract: its result
    stub,         \* SpecClient: the scripted proving service
    cl,           \* SpecClient: the state of one ProofApiClient::fetch_proof call
    signer        \* SpecNonce: the tasks signing with the relayer key, and the accounts

vars == <<cfg, gen, pairLog, emitted, event_ch, fetcher, ftasks, delivery_ch, deliverer, dtasks, run, xin, xout, stub, cl, signer>>

pipeVars == <<cfg, gen, pairLog, emitted, event_ch, fetcher, ftasks, delivery_ch, deliverer, dtasks, run>>

unitVars == <<xin, xout, stub, cl, signer>>

\* Option<T>: None, or Some(x) as the one-element sequence
None == <<>>

Some(x) == <<x>>

Unwrap(o) == o[1]

(***************************************************************************)
(* Bounds of the model                                                     *)
(***************************************************************************)
\* how many times, in total, the resolvers answer canExec = true
MaxExec == 2
\* capacity of each mpsc channel in the model (the program creates them with 100)
ChanCap == 1
\* most "pending" answers the scripted service of SpecClient gives
StubMaxPending == 7
\* most logs in a receipt of SpecExtract
MaxLogs == 2
\* the model checker's integers are 32 bits wide, so the program's widths are
\* scaled down: a u32 is modelled with U32Bits bits and a u64 with U64Bits bits
U32Bits == 5
U64Bits == 8

(***************************************************************************)
(* Integer widths                                                          *)
(***************************************************************************)
Pow2(n) == 2 ^ n

U32Max == Pow2(U32Bits) - 1

U64Max == Pow2(U64Bits) - 1

\* `x as u32` on a u64: keeps the low 32 bits
AsU32Wrapping(x) == x % Pow2(U32Bits)

\* U256::as_u32 / U64::as_u32: the value, or a panic on overflow
FitsU32(x) == x <= U32Max

\* U256::as_u64: the value, or a panic on overflow
FitsU64(x) == x <= U64Max

(***************************************************************************)
(* Addresses: Address::from_str parses hex text, with or without the 0x    *)
(* prefix, in either case; anything else is an error.                      *)
(***************************************************************************)
HexTable == [s \in {"0xa1", "0xA1", "a1", "0xb1", "0xB1", "0xa2", "0xA2", "0xb2", "0xB2"} |-> CASE s \in {"0xa1", "0xA1", "a1"} -> 161 [] s \in {"0xb1", "0xB1"} -> 177 [] s \in {"0xa2", "0xA2"} -> 162 [] OTHER -> 178]

AddressFromStr(s) ==
    IF s \in DOMAIN HexTable THEN [ok |-> TRUE, addr |-> HexTable[s]] ELSE [ok |-> FALSE, addr |-> 0]

\* Address::from_str(..).unwrap_or_default(): the zero address on a parse error
AddressOrDefault(s) == AddressFromStr(s).addr

(***************************************************************************)
(* keccak256, as an injective tag on the hashed text                       *)
(***************************************************************************)
Keccak256(text) == <<"keccak256", text>>

EventSignature == "CrossChainExecRequested(uint32,bytes,uint256)"


(***************************************************************************)
(* Configuration (config.rs): chains keyed by chain id, and relay pairs    *)
(***************************************************************************)
ChainA == [name |-> "A", chain_id |-> 10, rpc_url |-> "http://a"]

ChainB == [name |-> "B", chain_id |-> 20, rpc_url |-> "http://b"]

\* a chain whose id does not fit the (scaled) 32 bits of a u32
ChainC == [name |-> "C", chain_id |-> 200, rpc_url |-> "http://c"]

\* RelayerConfig.chains: HashMap<u64, ChainConfig>
Chains == [id \in {10, 20, 200} |-> IF id = 10 THEN ChainA ELSE IF id = 20 THEN ChainB ELSE ChainC]

PairAB == [source_chain_id |-> 10, source_resolver_address |-> "0xA1", dest_chain_id |-> 20, dest_dapp_address |-> "0xB2"]

PairBA == [source_chain_id |-> 20, source_resolver_address |-> "0xb1", dest_chain_id |-> 10, dest_dapp_address |-> "0xa2"]

\* a pair towards the chain with the wide id
PairAC == [source_chain_id |-> 10, source_resolver_address |-> "0xA1", dest_chain_id |-> 200, dest_dapp_address |-> "0xB2"]

\* a pair whose source chain is not in the chain map
PairNoSource == [source_chain_id |-> 30, source_resolver_address |-> "0xA1", dest_chain_id |-> 20, dest_dapp_address |-> "0xB2"]

\* a pair whose destination chain is not in the chain map
PairNoDest == [source_chain_id |-> 10, source_resolver_address |-> "0xA1", dest_chain_id |-> 40, dest_dapp_address |-> "0xB2"]

(***************************************************************************)
(* types.rs: RelayEvent and EventMeta                                      *)
(***************************************************************************)
EventMeta(tx_hash, block_number, tx_index, log_index) ==
    [tx_hash |-> tx_hash, block_number |-> block_number, tx_index |-> tx_index, log_index |-> log_index]

RelayEvent(source_chain, resolver, destination_chain, dapp, exec_payload, nonce, meta) ==
    [source_chain |-> source_chain, source_resolver_address |-> resolver, destination_chain |-> destination_chain, dest_dapp_address |-> dapp, exec_payload |-> exec_payload, nonce |-> nonce, meta |-> meta]

(***************************************************************************)
(* EventGenerator::extract_event_details                                   *)
(*                                                                         *)
(* A receipt is [block_number, transaction_index, logs]; a log is          *)
(* [address, topics, log_index]; block_number and log_index are options.   *)
(* The answer of get_transaction_receipt is rpc:                           *)
(*   [kind |-> "err"], [kind |-> "none"] or [kind |-> "receipt", receipt]  *)
(***************************************************************************)
Result(kind, value) == [kind |-> kind, value |-> value]

\* a plausible slip: the address test left out
LogMatchesAnyAddress(log, relay_pair) ==
    /\ Len(log.topics) >= 1
    /\ log.topics[1] = Keccak256(EventSignature)

\* the closure passed to find(): from the resolver, and topic 0 is the signature hash
LogMatches(log, relay_pair) ==
    /\ log.address = AddressOrDefault(relay_pair.source_resolver_address)
    /\ Len(log.topics) >= 1
    /\ log.topics[1] = Keccak256(EventSignature)

\* tx_receipt.logs.iter().find(..): the position of the first matching log, 0 if none
FindLog(logs, relay_pair) ==
    LET hits == {i \in 1..Len(logs) : LogMatches(logs[i], relay_pair)}
    IN  IF hits = {} THEN 0 ELSE CHOOSE i \in hits : \A j \in hits : i <= j

\* a plausible slip: the receipt's block number, a u64 as well, in the place
\* of the nonce
ExtractEventDetailsNonceMixed(tx_hash, source_chain, destination_chain, exec_payload, nonce, relay_pair, rpc) ==
    IF rpc.kind = "err" THEN Result("err", "rpc error")
    ELSE IF rpc.kind = "none" THEN Result("err", "Transaction receipt not found")
    ELSE LET r == rpc.receipt
             at == FindLog(r.logs, relay_pair)
         IN  IF at = 0 THEN Result("err", "CrossChainExecRequested event not found in transaction")
             ELSE IF r.block_number = None THEN Result("err", "block_number not found from receipt")
             ELSE IF ~FitsU32(r.transaction_index) THEN Result("panic", "as_u32")
             ELSE IF r.logs[at].log_index = None THEN Result("err", "log_index not found from CrossChainExecRequested event")
             ELSE IF ~FitsU32(Unwrap(r.logs[at].log_index)) THEN Result("panic", "as_u32")
             ELSE Result("ok", RelayEvent(source_chain, relay_pair.source_resolver_address, destination_chain, relay_pair.dest_dapp_address, exec_payload, Unwrap(r.block_number), EventMeta(Some(tx_hash), Unwrap(r.block_number), r.transaction_index, Unwrap(r.logs[at].log_index))))

\* extract_event_details: the receipt is fetched again, the first matching log
\* found, and the event built from the arguments and the receipt
ExtractEventDetails(tx_hash, source_chain, destination_chain, exec_payload, nonce, relay_pair, rpc) ==
    IF rpc.kind = "err" THEN Result("err", "rpc error")
    ELSE IF rpc.kind = "none" THEN Result("err", "Transaction receipt not found")
    ELSE LET r == rpc.receipt
             at == FindLog(r.logs, relay_pair)
         IN  IF at = 0 THEN Result("err", "CrossChainExecRequested event not found in transaction")
             ELSE IF r.block_number = None THEN Result("err", "block_number not found from receipt")
             ELSE IF ~FitsU32(r.transaction_index) THEN Result("panic", "as_u32")
             ELSE IF r.logs[at].log_index = None THEN Result("err", "log_index not found from CrossChainExecRequested event")
             ELSE IF ~FitsU32(Unwrap(r.logs[at].log_index)) THEN Result("panic", "as_u32")
             ELSE Result("ok", RelayEvent(source_chain, relay_pair.source_resolver_address, destination_chain, relay_pair.dest_dapp_address, exec_payload, nonce, EventMeta(Some(tx_hash), Unwrap(r.block_number), r.transaction_index, Unwrap(r.logs[at].log_index))))

(***************************************************************************)
(* SpecExtract: extract_event_details over every receipt of up to MaxLogs  *)
(* logs.  The log at position i of a receipt has log index base + i - 1    *)
(* (or none).                                                              *)
(***************************************************************************)
OtherTopic == Keccak256("Transfer(address,address,uint256)")

XLogShapes == [address : {161, 177}, topics : {<<>>, <<Keccak256(EventSignature)>>, <<OtherTopic>>, <<OtherTopic, Keccak256(EventSignature)>>}, indexed : BOOLEAN]

XShapeSeqs == UNION {[1..n -> XLogShapes] : n \in 0..MaxLogs}

XLogs(shapes, base) ==
    [i \in 1..Len(shapes) |-> [address |-> shapes[i].address, topics |-> shapes[i].topics, log_index |-> IF shapes[i].indexed THEN Some(base + i - 1) ELSE None]]

XReceipts ==
    {[block_number |-> b, transaction_index |-> t, logs |-> XLogs(sh, base)] : b \in {None, Some(100)}, t \in {2, U32Max + 1}, sh \in XShapeSeqs, base \in {1, U32Max - 1}}

XRpc == {[kind |-> "err"], [kind |-> "none"]} \cup {[kind |-> "receipt", receipt |-> r] : r \in XReceipts}

XIdle == xin = [kind |-> "idle"] /\ xout = [kind |-> "idle"]

XInit ==
    /\ xin \in [kind : {"input"}, rpc : XRpc, relay_pair : {PairAB}, tx_hash : {1}, exec_payload : {<<222, 173>>}, nonce : {7}]
    /\ xout = [kind |-> "idle"]

XExtract ==
    /\ xin.kind = "input"
    /\ xout.kind = "idle"
    /\ xout' = ExtractEventDetails(xin.tx_hash, Chains[xin.relay_pair.source_chain_id], Chains[xin.relay_pair.dest_chain_id], xin.exec_payload, xin.nonce, xin.relay_pair, xin.rpc)
    /\ UNCHANGED <<xin, stub, cl, signer>>
    /\ UNCHANGED pipeVars


(***************************************************************************)
(* base64 (general_purpose::STANDARD): text is a sequence of symbols,      *)
(* 0..63 the alphabet and 64 the padding character '='.  Decoding wants    *)
(* whole, padded quads and no stray bits in the last symbol.               *)
(***************************************************************************)
B64EncodeGroup(g) ==
    IF Len(g) = 3 THEN <<g[1] \div 4, (g[1] % 4) * 16 + g[2] \div 16, (g[2] % 16) * 4 + g[3] \div 64, g[3] % 64>>
    ELSE IF Len(g) = 2 THEN <<g[1] \div 4, (g[1] % 4) * 16 + g[2] \div 16, (g[2] % 16) * 4, 64>>
    ELSE <<g[1] \div 4, (g[1] % 4) * 16, 64, 64>>

RECURSIVE B64Encode(_)
B64Encode(bytes) ==
    IF bytes = <<>> THEN <<>>
    ELSE IF Len(bytes) <= 3 THEN B64EncodeGroup(bytes)
    ELSE B64EncodeGroup(SubSeq(bytes, 1, 3)) \o B64Encode(SubSeq(bytes, 4, Len(bytes)))

\* one quad of text: the bytes it holds, or an error
B64DecodeQuad(q, last) ==
    IF q[1] = 64 \/ q[2] = 64 THEN [ok |-> FALSE, bytes |-> <<>>]
    ELSE IF q[3] = 64
         THEN IF q[4] = 64 /\ last /\ q[2] % 16 = 0 THEN [ok |-> TRUE, bytes |-> <<q[1] * 4 + q[2] \div 16>>] ELSE [ok |-> FALSE, bytes |-> <<>>]
    ELSE IF q[4] = 64
         THEN IF last /\ q[3] % 4 = 0 THEN [ok |-> TRUE, bytes |-> <<q[1] * 4 + q[2] \div 16, (q[2] % 16) * 16 + q[3] \div 4>>] ELSE [ok |-> FALSE, bytes |-> <<>>]
    ELSE [ok |-> TRUE, bytes |-> <<q[1] * 4 + q[2] \div 16, (q[2] % 16) * 16 + q[3] \div 4, (q[3] % 4) * 64 + q[4]>>]

RECURSIVE B64Decode(_)
B64Decode(text) ==
    IF text = <<>> THEN [ok |-> TRUE, bytes |-> <<>>]
    ELSE IF Len(text) < 4 THEN [ok |-> FALSE, bytes |-> <<>>]
    ELSE LET head == B64DecodeQuad(SubSeq(text, 1, 4), Len(text) = 4)
             rest == B64Decode(SubSeq(text, 5, Len(text)))
         IN  IF head.ok /\ rest.ok THEN [ok |-> TRUE, bytes |-> head.bytes \o rest.bytes] ELSE [ok |-> FALSE, bytes |-> <<>>]

(***************************************************************************)
(* ProofApiClient::fetch_proof (proof_fetcher/client.rs)                   *)
(*                                                                         *)
(* A client state is [pc, job_id, attempts, polls, result]: pc is          *)
(* "request" before log_requestProof, "query" while polling and "done"     *)
(* once fetch_proof has returned result; polls counts the log_queryProof   *)
(* calls made.                                                             *)
(***************************************************************************)
\* `if attempts > 5`
MaxAttempts == 5

ClientStart == [pc |-> "request", job_id |-> 0, attempts |-> 0, polls |-> 0, result |-> Result("none", <<>>)]

ClientDone(c, result) == [c EXCEPT !.pc = "done", !.result = result]

\* a plausible slip: every status but "pending" taken as the end of the polling
IsReadyUnlessPending(status) == status # "pending"

\* the statuses that end the polling
IsReady(status) == status = "ready" \/ status = "complete"

\* a plausible slip: the `id` of the JSON-RPC envelope, always 1, taken for the
\* job id in `result`
ClientAfterRequestEnvelopeId(c, resp) ==
    IF resp.kind = "err" THEN ClientDone(c, Result("err", "transport"))
    ELSE [c EXCEPT !.pc = "query", !.job_id = 1]

\* self.request_proof(..).await? : resp is [kind |-> "err"] or [kind |-> "ok", job |-> id]
ClientAfterRequest(c, resp) ==
    IF resp.kind = "err" THEN ClientDone(c, Result("err", "transport"))
    ELSE [c EXCEPT !.pc = "query", !.job_id = resp.job]

\* a plausible slip: `attempts >= 5`, one poll fewer
ClientAfterQueryOffByOne(c, resp) ==
    IF resp.kind = "err" THEN ClientDone([c EXCEPT !.polls = @ + 1], Result("err", "transport"))
    ELSE IF IsReady(resp.status)
         THEN LET dec == B64Decode(resp.proof)
              IN  ClientDone([c EXCEPT !.polls = @ + 1], IF dec.ok THEN Result("ok", dec.bytes) ELSE Result("err", "decode"))
    ELSE IF c.attempts + 1 >= MaxAttempts
         THEN ClientDone([c EXCEPT !.polls = @ + 1, !.attempts = @ + 1], Result("err", "Timeout waiting for proof"))
    ELSE [c EXCEPT !.polls = @ + 1, !.attempts = @ + 1]

\* one turn of the loop: self.query_proof(job_id).await?, the status test, the
\* attempts test, and the sleep before the next turn.  resp is [kind |-> "err"]
\* or [kind |-> "ok", status, proof]
ClientAfterQuery(c, resp) ==
    IF resp.kind = "err" THEN ClientDone([c EXCEPT !.polls = @ + 1], Result("err", "transport"))
    ELSE IF IsReady(resp.status)
         THEN LET dec == B64Decode(resp.proof)
              IN  ClientDone([c EXCEPT !.polls = @ + 1], IF dec.ok THEN Result("ok", dec.bytes) ELSE Result("err", "decode"))
    ELSE IF c.attempts + 1 > MaxAttempts
         THEN ClientDone([c EXCEPT !.polls = @ + 1, !.attempts = @ + 1], Result("err", "Timeout waiting for proof"))
    ELSE [c EXCEPT !.polls = @ + 1, !.attempts = @ + 1]

\* the proving service's answer to log_queryProof for a job that still has
\* job.pending "pending" answers to give
ServiceAnswer(job) ==
    IF job.pending > 0 THEN [kind |-> "ok", status |-> job.wait_status, proof |-> <<>>]
    ELSE [kind |-> "ok", status |-> job.ready_status, proof |-> job.proof]

ServiceAfterQuery(job) == IF job.pending > 0 THEN [job EXCEPT !.pending = @ - 1] ELSE job

(***************************************************************************)
(* SpecClient: one fetch_proof call against a service scripted to answer   *)
(* stub.wait_status stub.pending times and then stub.ready_status with     *)
(* stub.proof                                                              *)
(***************************************************************************)
StubBytes == {<<>>, <<0>>, <<255, 1>>, <<222, 173, 190>>, <<0, 0, 0, 0>>, <<1, 2, 3, 4, 5>>}

\* text that is not base64: a lone symbol, padding first, stray bits, padding inside
StubBadText == {<<1>>, <<64, 1, 2, 3>>, <<1, 1, 64, 64>>, <<1, 2, 64, 64, 1, 2, 3, 4>>}

\* the statuses the service gives before the proof is there: still working,
\* or a failure of the job
WaitStatuses == {"pending", "failed", "error"}

StubScripts ==
    {[kind |-> "stub", pending |-> n, wait_status |-> w, ready_status |-> st, proof |-> B64Encode(b), bytes |-> Some(b)] : n \in 0..StubMaxPending, w \in WaitStatuses, st \in {"ready", "complete"}, b \in StubBytes}
    \cup {[kind |-> "stub", pending |-> n, wait_status |-> w, ready_status |-> st, proof |-> t, bytes |-> None] : n \in 0..StubMaxPending, w \in WaitStatuses, st \in {"ready", "complete"}, t \in StubBadText}

CInit == stub \in StubScripts /\ cl = [kind |-> "client", n |-> stub.pending, c |-> ClientStart]

\* log_requestProof: the service hands out job 1, or the call fails
CRequest ==
    /\ cl.kind = "client"
    /\ cl.c.pc = "request"
    /\ \E resp \in {[kind |-> "err"], [kind |-> "ok", job |-> 1]} : cl' = [cl EXCEPT !.c = ClientAfterRequest(cl.c, resp)]
    /\ UNCHANGED <<stub, xin, xout, signer>>
    /\ UNCHANGED pipeVars

\* log_queryProof: the service answers from its script, or the call fails
CQuery ==
    /\ cl.kind = "client"
    /\ cl.c.pc = "query"
    /\ \/ /\ cl' = [cl EXCEPT !.c = ClientAfterQuery(cl.c, ServiceAnswer(stub))]
          /\ stub' = ServiceAfterQuery(stub)
       \/ /\ cl' = [cl EXCEPT !.c = ClientAfterQuery(cl.c, [kind |-> "err"])]
          /\ UNCHANGED stub
    /\ UNCHANGED <<xin, xout, signer>>
    /\ UNCHANGED pipeVars

(***************************************************************************)
(* The pipeline: configuration and initial state (RelayerApp::new)         *)
(***************************************************************************)
\* the configurations explored; info is whether the info! log level is enabled
Configs ==
    {[relay_pairs |-> <<PairAB, PairBA>>, info |-> FALSE],
     [relay_pairs |-> <<PairNoSource, PairAB>>, info |-> TRUE],
     [relay_pairs |-> <<PairAB, PairNoDest, PairBA>>, info |-> TRUE]}

NoCheck == [kind |-> "none"]

\* pairLog before any pair is checked in a tick
NoLog == [idx |-> 0, can_exec |-> "unknown", checker_arg |-> None, exec_arg |-> None, submitted |-> 0, confirmed |-> 0, events |-> 0, enqueued |-> 0]

GenInit == [status |-> "running", pc |-> "sleep", last |-> "none", idx |-> 0, visited |-> {}, execs |-> 0, chk |-> NoCheck, tx_hash |-> 0, event |-> None]

PipeInit ==
    /\ gen = GenInit
    /\ pairLog = NoLog
    /\ emitted = {}
    /\ event_ch = <<>>
    /\ fetcher = [status |-> "running", failed |-> {}]
    /\ ftasks = {}
    /\ delivery_ch = <<>>
    /\ deliverer = [status |-> "running", received |-> 0, failed |-> {}, panicked |-> {}]
    /\ dtasks = {}
    /\ run = "waiting"

(***************************************************************************)
(* EventGenerator (event_generator.rs)                                     *)
(*                                                                         *)
(* gen.pc:  "sleep"    in interval_timer.tick().await                      *)
(*          "pair"     at the head of the for loop of check_all_chains     *)
(*          "submit"   crossChainChecker said canExec; about to send()     *)
(*          "confirm"  transaction sent, awaiting its confirmation         *)
(*          "extract"  awaiting get_transaction_receipt                    *)
(*          "send"     in event_tx.send(event).await                       *)
(* gen.last is how the last pass of check_all_chains ended, gen.visited    *)
(* the pairs check_cross_chain_events was called for in the current pass,  *)
(* gen.execs how many times a resolver has answered canExec = true.        *)
(***************************************************************************)
\* what the k-th canExec = true answer carries
PayloadFor(k) == <<k, 2, 3, 4, 5>>

NonceFor(k) == 7 + k

\* the answers of the resolver's crossChainChecker that are explored
CheckerAnswers(g) ==
    {[kind |-> "err"], [kind |-> "ok", can_exec |-> FALSE, exec_payload |-> <<>>, nonce |-> 7]}
    \cup (IF g.execs < MaxExec THEN {[kind |-> "ok", can_exec |-> TRUE, exec_payload |-> PayloadFor(g.execs + 1), nonce |-> n] : n \in {NonceFor(g.execs + 1), U64Max + 1}} ELSE {})

\* the receipts of the k-th requestRemoteExecution transaction that are explored:
\* the event after a look-alike from another contract, no event, no block number
PipeReceipts(relay_pair, k) ==
    LET resolver == AddressOrDefault(relay_pair.source_resolver_address)
        sig == Keccak256(EventSignature)
    IN  {[block_number |-> Some(100 + k), transaction_index |-> 2, logs |-> <<[address |-> 200, topics |-> <<sig>>, log_index |-> Some(3)], [address |-> resolver, topics |-> <<sig>>, log_index |-> Some(4)]>>],
         [block_number |-> Some(100 + k), transaction_index |-> 2, logs |-> <<[address |-> resolver, topics |-> <<OtherTopic>>, log_index |-> Some(3)]>>],
         [block_number |-> None, transaction_index |-> 2, logs |-> <<[address |-> resolver, topics |-> <<sig>>, log_index |-> Some(0)]>>]}

PipeRpc(relay_pair, k) ==
    {[kind |-> "err"], [kind |-> "none"]} \cup {[kind |-> "receipt", receipt |-> r] : r \in PipeReceipts(relay_pair, k)}

\* the end of check_cross_chain_events for this pair: on to the next one
NextPair(g) == [g EXCEPT !.pc = "pair", !.idx = @ + 1, !.chk = NoCheck, !.tx_hash = 0, !.event = None]

\* `.ok_or_else(..)?` in check_all_chains: the pass ends with the error, which
\* start logs
UnknownChain(g) == [g EXCEPT !.pc = "sleep", !.last = "err", !.chk = NoCheck, !.tx_hash = 0, !.event = None]

\* the for loop is over: check_all_chains returns Ok(())
EndPass(g) == [g EXCEPT !.pc = "sleep", !.last = "ok", !.chk = NoCheck, !.tx_hash = 0, !.event = None]

\* a panic unwinds the generator's task: the EventGenerator and its event_tx are dropped
Panicked(g) == [g EXCEPT !.status = "panicked", !.pc = "gone", !.chk = NoCheck, !.tx_hash = 0, !.event = None]

\* self.chains.get(&id): whether the chain map holds the id
ChainKnown(id) == id \in DOMAIN Chains

\* a plausible slip: requestRemoteExecution whatever canExec says
AfterCheckerIgnoringCanExec(g, res, info) ==
    IF res.kind = "err" THEN NextPair(g)
    ELSE IF info /\ ~FitsU64(res.nonce) THEN Panicked(g)
    ELSE [g EXCEPT !.pc = "submit", !.chk = res, !.execs = IF res.can_exec THEN @ + 1 ELSE @]

\* check_cross_chain_events from the answer of crossChainChecker to the next
\* await; the info! of the canExec branch evaluates nonce.as_u64()
AfterChecker(g, res, info) ==
    IF res.kind = "err" THEN NextPair(g)
    ELSE IF res.can_exec
         THEN IF info /\ ~FitsU64(res.nonce) THEN Panicked(g)
              ELSE [g EXCEPT !.pc = "submit", !.chk = res, !.execs = @ + 1]
         ELSE NextPair(g)

\* a plausible slip: a timer that starts a pass while the last one is still
\* waiting in its send
TickReadyReentrant(g) == g.pc \in {"sleep", "send"}

\* the loop of start reaches interval_timer.tick().await only when
\* check_all_chains has returned
TickReady(g) == g.pc = "sleep"

\* interval_timer.tick().await returns: a pass of check_all_chains begins
GenTick ==
    /\ gen.status = "running"
    /\ TickReady(gen)
    /\ gen' = [gen EXCEPT !.pc = "pair", !.idx = 1, !.visited = {}]
    /\ pairLog' = NoLog
    /\ UNCHANGED <<cfg, emitted, event_ch, fetcher, ftasks, delivery_ch, deliverer, dtasks, run>>
    /\ UNCHANGED unitVars

\* the for loop of check_all_chains ran out of pairs: Ok(())
GenPassDone ==
    /\ gen.status = "running"
    /\ gen.pc = "pair"
    /\ gen.idx > Len(cfg.relay_pairs)
    /\ gen' = EndPass(gen)
    /\ pairLog' = NoLog
    /\ UNCHANGED <<cfg, emitted, event_ch, fetcher, ftasks, delivery_ch, deliverer, dtasks, run>>
    /\ UNCHANGED unitVars

\* one iteration of the for loop up to the answer of crossChainChecker
GenCheck ==
    /\ gen.status = "running"
    /\ gen.pc = "pair"
    /\ gen.idx <= Len(cfg.relay_pairs)
    /\ LET relay_pair == cfg.relay_pairs[gen.idx]
           called == [gen EXCEPT !.visited = @ \cup {gen.idx}]
       IN  IF ~ChainKnown(relay_pair.source_chain_id) \/ ~ChainKnown(relay_pair.dest_chain_id)
           THEN /\ gen' = UnknownChain(gen)
                /\ pairLog' = NoLog
           ELSE IF ~AddressFromStr(relay_pair.source_resolver_address).ok
           THEN \* .context("Invalid resolver address")? : logged by check_all_chains
                /\ gen' = NextPair(called)
                /\ pairLog' = [NoLog EXCEPT !.idx = gen.idx]
           ELSE \E res \in CheckerAnswers(gen) :
                /\ gen' = AfterChecker(called, res, cfg.info)
                /\ pairLog' = [NoLog EXCEPT !.idx = gen.idx,
                                            !.checker_arg = Some(AsU32Wrapping(Chains[relay_pair.dest_chain_id].chain_id)),
                                            !.can_exec = IF res.kind = "err" THEN "unknown" ELSE IF res.can_exec THEN "true" ELSE "false"]
    /\ UNCHANGED <<cfg, emitted, event_ch, fetcher, ftasks, delivery_ch, deliverer, dtasks, run>>
    /\ UNCHANGED unitVars

\* request_remote_execution up to tx_req.send().await: "err", or "ok" and the
\* transaction is submitted; its hash is told apart by g.execs
AfterSend(g, outcome) ==
    IF outcome = "ok" THEN [g EXCEPT !.pc = "confirm", !.tx_hash = g.execs] ELSE NextPair(g)

GenSubmit ==
    /\ gen.status = "running"
    /\ gen.pc = "submit"
    /\ \E outcome \in {"ok", "err"} :
         /\ gen' = AfterSend(gen, outcome)
         /\ pairLog' = IF outcome = "ok"
                       THEN [pairLog EXCEPT !.submitted = @ + 1, !.exec_arg = Some(cfg.relay_pairs[gen.idx].dest_chain_id)]
                       ELSE pairLog
    /\ UNCHANGED <<cfg, emitted, event_ch, fetcher, ftasks, delivery_ch, deliverer, dtasks, run>>
    /\ UNCHANGED unitVars

\* a plausible slip: the hash returned without waiting for the receipt
AfterConfirmNotAwaited(g, outcome) ==
    IF ~FitsU64(g.chk.nonce) THEN Panicked(g) ELSE [g EXCEPT !.pc = "extract"]

\* tx.await? and ok_or_else: "err", "none" (no receipt) or "receipt"; then the
\* arguments of extract_event_details are evaluated, nonce.as_u64() among them
AfterConfirm(g, outcome) ==
    IF outcome # "receipt" THEN NextPair(g)
    ELSE IF ~FitsU64(g.chk.nonce) THEN Panicked(g)
    ELSE [g EXCEPT !.pc = "extract"]

GenConfirm ==
    /\ gen.status = "running"
    /\ gen.pc = "confirm"
    /\ \E outcome \in {"receipt", "none", "err"} :
         /\ gen' = AfterConfirm(gen, outcome)
         /\ pairLog' = IF outcome = "receipt" THEN [pairLog EXCEPT !.confirmed = @ + 1] ELSE pairLog
    /\ UNCHANGED <<cfg, emitted, event_ch, fetcher, ftasks, delivery_ch, deliverer, dtasks, run>>
    /\ UNCHANGED unitVars

\* check_cross_chain_events after extract_event_details(..).await
AfterExtract(g, res) ==
    IF res.kind = "ok" THEN [g EXCEPT !.pc = "send", !.event = Some(res.value)]
    ELSE IF res.kind = "panic" THEN Panicked(g)
    ELSE NextPair(g)

GenExtract ==
    /\ gen.status = "running"
    /\ gen.pc = "extract"
    /\ LET relay_pair == cfg.relay_pairs[gen.idx]
       IN  \E rpc \in PipeRpc(relay_pair, gen.tx_hash) :
             LET res == ExtractEventDetails(gen.tx_hash, Chains[relay_pair.source_chain_id], Chains[relay_pair.dest_chain_id], gen.chk.exec_payload, gen.chk.nonce, relay_pair, rpc)
             IN  /\ gen' = AfterExtract(gen, res)
                 /\ emitted' = IF res.kind = "ok" THEN emitted \cup {res.value} ELSE emitted
                 /\ pairLog' = IF res.kind = "ok" THEN [pairLog EXCEPT !.events = @ + 1] ELSE pairLog
    /\ UNCHANGED <<cfg, event_ch, fetcher, ftasks, delivery_ch, deliverer, dtasks, run>>
    /\ UNCHANGED unitVars

\* a plausible slip: try_send, which gives up when the channel is full
SendOutcomeTrySend(ch, receiver_alive) ==
    IF ~receiver_alive \/ Len(ch) >= ChanCap THEN "closed" ELSE "ok"

\* mpsc::Sender::send: "closed" when the receiver is gone, "full" when the send
\* has to wait, "ok" when there is room
SendOutcome(ch, receiver_alive) ==
    IF ~receiver_alive THEN "closed" ELSE IF Len(ch) >= ChanCap THEN "full" ELSE "ok"

\* self.event_tx.send(event).await: waits while the channel is full; an error
\* (receiver dropped) is logged and the event is lost
GenSend ==
    /\ gen.status = "running"
    /\ gen.pc = "send"
    /\ LET outcome == SendOutcome(event_ch, fetcher.status = "running")
       IN  /\ outcome # "full"
           /\ event_ch' = IF outcome = "ok" THEN Append(event_ch, Unwrap(gen.event)) ELSE event_ch
           /\ pairLog' = IF outcome = "ok" THEN [pairLog EXCEPT !.enqueued = @ + 1] ELSE pairLog
           /\ gen' = NextPair(gen)
    /\ UNCHANGED <<cfg, emitted, fetcher, ftasks, delivery_ch, deliverer, dtasks, run>>
    /\ UNCHANGED unitVars

(***************************************************************************)
(* ProofFetcher (proof_fetcher/mod.rs)                                     *)
(*                                                                         *)
(* A fetch task is [event, request, pc, c, params, delivery]: pc is        *)
(* "fetch" inside Self::fetch_proof (c is the client's state, params what  *)
(* it sent in log_requestProof) and "send" in delivery_tx.send(..).await.  *)
(* A task that has ended is no longer in ftasks.                           *)
(***************************************************************************)
\* types.rs ProofRequest, as built in ProofFetcher::start
ProofRequest(event, tx_hash) ==
    [event |-> event, tx_hash |-> tx_hash, destination_chain_id |-> event.destination_chain.chain_id, dest_contract_address |-> event.dest_dapp_address]

\* types.rs DeliveryRequest, as built in the spawned task
DeliveryRequest(event, proof, request) ==
    [event |-> event, proof |-> proof, destination_chain_id |-> request.destination_chain_id, destination_contract_address |-> request.dest_contract_address]

\* a plausible slip: tx_index and log_index in each other's place
FetchProofParamsSwapped(request) ==
    <<request.event.source_chain.chain_id, request.event.meta.block_number, request.event.meta.log_index, request.event.meta.tx_index>>

\* the arguments ProofFetcher::fetch_proof hands to the client, which sends them
\* as the params of log_requestProof
FetchProofParams(request) ==
    <<request.event.source_chain.chain_id, request.event.meta.block_number, request.event.meta.tx_index, request.event.meta.log_index>>

\* the proving service: the job id it hands out for a request, and the proof of a job
ServiceJobId(params) == params[2]

ProofFor(job) == <<job, 0, 255, job + 1>>

\* the jobs the service may keep pending for any number of polls
SlowJobs == {ServiceJobId(<<10, 101, 2, 4>>)}

\* the answers of the service to log_queryProof(job), or a failed call; in the
\* pipeline a proof of any other job is pending for at most one poll
\* (SpecClient explores the rest)
QueryAnswers(job, attempts) ==
    {[kind |-> "err"], [kind |-> "ok", status |-> "ready", proof |-> B64Encode(ProofFor(job))]}
    \cup (IF attempts = 0 \/ job \in SlowJobs THEN {[kind |-> "ok", status |-> "pending", proof |-> <<>>]} ELSE {})

\* the task spawned for an event: it owns the event and its ProofRequest
SpawnFetch(event) ==
    [event |-> event, request |-> ProofRequest(event, Unwrap(event.meta.tx_hash)), pc |-> "fetch", c |-> ClientStart, params |-> None, delivery |-> None]

\* a plausible slip: a failed fetch started over
AfterFetchRetry(t, c) ==
    IF c.pc # "done" THEN {[t EXCEPT !.c = c]}
    ELSE IF c.result.kind = "ok" THEN {[t EXCEPT !.c = c, !.pc = "send", !.delivery = Some(DeliveryRequest(t.event, c.result.value, t.request))]}
    ELSE {[t EXCEPT !.c = ClientStart, !.params = None]}

\* a plausible slip: log_requestProof inside the polling loop, so that a poll
\* that is not ready is followed by a new request
AfterFetchRequestAgain(t, c) ==
    IF c.pc # "done" THEN {[t EXCEPT !.c = IF c.attempts > 0 THEN [c EXCEPT !.pc = "request"] ELSE c]}
    ELSE IF c.result.kind = "ok" THEN {[t EXCEPT !.c = c, !.pc = "send", !.delivery = Some(DeliveryRequest(t.event, c.result.value, t.request))]}
    ELSE {}

\* the match on fetch_proof's result: Ok builds the DeliveryRequest to send, Err
\* is logged and the task ends
AfterFetch(t, c) ==
    IF c.pc # "done" THEN {[t EXCEPT !.c = c]}
    ELSE IF c.result.kind = "ok" THEN {[t EXCEPT !.c = c, !.pc = "send", !.delivery = Some(DeliveryRequest(t.event, c.result.value, t.request))]}
    ELSE {}

\* a plausible slip: the error of a task taken as the error of the loop
FetcherAfterTaskErrorFatal(f, t, c) ==
    IF c.pc = "done" /\ c.result.kind = "err"
    THEN [f EXCEPT !.status = "exited", !.failed = @ \cup {[tx_hash |-> t.request.tx_hash, error |-> c.result.value]}]
    ELSE f

\* the Err arm of the task's match: the error is logged (fetcher.failed keeps
\* which event and which error) and nothing else of the fetcher is touched
FetcherAfterTask(f, t, c) ==
    IF c.pc = "done" /\ c.result.kind = "err"
    THEN [f EXCEPT !.failed = @ \cup {[tx_hash |-> t.request.tx_hash, error |-> c.result.value]}]
    ELSE f

\* a plausible slip: the fetch awaited in the loop instead of spawned
FetcherCanRecvInline == event_ch # <<>> /\ ftasks = {}

\* a plausible slip: the loop itself waiting for room in the delivery channel
FetcherCanRecvDeliveryRoom == event_ch # <<>> /\ Len(delivery_ch) < ChanCap

\* while let Some(event) = self.event_rx.recv().await
FetcherCanRecv == event_ch # <<>>

\* a plausible slip: the missing hash replaced by a default one
AfterRecvDefaultHash(tasks, event) ==
    tasks \cup {SpawnFetch([event EXCEPT !.meta.tx_hash = IF @ = None THEN Some(0) ELSE @])}

\* the body of the loop: an event without tx_hash is logged and skipped
\* (continue), any other gets its task
AfterRecv(tasks, event) ==
    IF event.meta.tx_hash = None THEN tasks ELSE tasks \cup {SpawnFetch(event)}

\* one event received by the loop of ProofFetcher::start
FetchRecv ==
    /\ fetcher.status = "running"
    /\ FetcherCanRecv
    /\ event_ch' = Tail(event_ch)
    /\ ftasks' = AfterRecv(ftasks, Head(event_ch))
    /\ UNCHANGED <<cfg, gen, pairLog, emitted, fetcher, delivery_ch, deliverer, dtasks, run>>
    /\ UNCHANGED unitVars

\* a plausible slip: the loop left as soon as the senders are gone, with items
\* still in the channel
RecvNoneOnClosure(ch, senders_alive) == ~senders_alive

\* mpsc::Receiver::recv() returns None, which ends `while let Some(..)`: the
\* channel is empty and every sender is dropped
RecvNone(ch, senders_alive) == ch = <<>> /\ ~senders_alive

\* recv() returns None (the generator's task, which owns event_tx, is gone);
\* start returns Ok(())
FetchExit ==
    /\ fetcher.status = "running"
    /\ RecvNone(event_ch, gen.status = "running")
    /\ fetcher' = [fetcher EXCEPT !.status = "exited"]
    /\ UNCHANGED <<cfg, gen, pairLog, emitted, event_ch, ftasks, delivery_ch, deliverer, dtasks, run>>
    /\ UNCHANGED unitVars

\* a task calls log_requestProof: the call fails, or the service opens a job
TaskRequest ==
    \E t \in ftasks :
      /\ t.pc = "fetch"
      /\ t.c.pc = "request"
      /\ LET params == FetchProofParams(t.request)
             sent == [t EXCEPT !.params = Some(params)]
         IN  \E resp \in {[kind |-> "err"], [kind |-> "ok", job |-> ServiceJobId(params)]} :
               /\ ftasks' = (ftasks \ {t}) \cup AfterFetch(sent, ClientAfterRequest(t.c, resp))
               /\ fetcher' = FetcherAfterTask(fetcher, t, ClientAfterRequest(t.c, resp))
      /\ UNCHANGED <<cfg, gen, pairLog, emitted, event_ch, delivery_ch, deliverer, dtasks, run>>
      /\ UNCHANGED unitVars

\* a task calls log_queryProof for its job
TaskQuery ==
    \E t \in ftasks :
      /\ t.pc = "fetch"
      /\ t.c.pc = "query"
      /\ \E resp \in QueryAnswers(t.c.job_id, t.c.attempts) :
           /\ ftasks' = (ftasks \ {t}) \cup AfterFetch(t, ClientAfterQuery(t.c, resp))
           /\ fetcher' = FetcherAfterTask(fetcher, t, ClientAfterQuery(t.c, resp))
      /\ UNCHANGED <<cfg, gen, pairLog, emitted, event_ch, delivery_ch, deliverer, dtasks, run>>
      /\ UNCHANGED unitVars

\* delivery_tx.send(delivery_request).await in the task: waits while the channel
\* is full; an error is logged; either way the task ends
TaskSend ==
    \E t \in ftasks :
      /\ t.pc = "send"
      /\ LET outcome == SendOutcome(delivery_ch, deliverer.status = "running")
         IN  /\ outcome # "full"
             /\ delivery_ch' = IF outcome = "ok" THEN Append(delivery_ch, Unwrap(t.delivery)) ELSE delivery_ch
      /\ ftasks' = ftasks \ {t}
      /\ UNCHANGED <<cfg, gen, pairLog, emitted, event_ch, fetcher, deliverer, dtasks, run>>
      /\ UNCHANGED unitVars

(***************************************************************************)
(* EventDeliverer (event_delivery.rs)                                      *)
(*                                                                         *)
(* A delivery task is [delivery, seq, pc, tx]: seq is its place in the     *)
(* order the deliverer received the requests; pc is "start" before         *)
(* send_transaction, "submitted" while tx awaits confirmation and          *)
(* "confirmed" when deliver_event is about to return Ok.  A task that has  *)
(* ended is no longer in dtasks.                                           *)
(***************************************************************************)
\* a plausible slip: the proof ahead of the payload
TxDataReversed(delivery) == delivery.proof \o delivery.event.exec_payload

\* [&exec_payload[..], proof.as_ref()].concat()
TxData(delivery) == delivery.event.exec_payload \o delivery.proof

\* deliver_event up to send_transaction: the wallet's chain id, the selector
\* slice [0..4] (a panic on a shorter payload), the data and the parsed address
BuildDeliveryTx(delivery) ==
    IF Len(delivery.event.exec_payload) < 4 THEN Result("panic", "slice")
    ELSE IF ~AddressFromStr(delivery.event.dest_dapp_address).ok THEN Result("err", "address")
    ELSE Result("ok", [to |-> AddressFromStr(delivery.event.dest_dapp_address).addr, chain_id |-> delivery.event.destination_chain.chain_id, data |-> TxData(delivery)])

\* a plausible slip: the delivery awaited in the loop instead of spawned
DelivererCanRecvInline == delivery_ch # <<>> /\ dtasks = {}

\* while let Some(delivery) = self.delivery_rx.recv().await
DelivererCanRecv == delivery_ch # <<>>

\* one DeliveryRequest received and its task spawned
DelivRecv ==
    /\ deliverer.status = "running"
    /\ DelivererCanRecv
    /\ delivery_ch' = Tail(delivery_ch)
    /\ deliverer' = [deliverer EXCEPT !.received = @ + 1]
    /\ dtasks' = dtasks \cup {[delivery |-> Head(delivery_ch), seq |-> deliverer.received + 1, pc |-> "start", tx |-> None]}
    /\ UNCHANGED <<cfg, gen, pairLog, emitted, event_ch, fetcher, ftasks, run>>
    /\ UNCHANGED unitVars

\* recv() returns None: the channel is empty and every delivery_tx is dropped
\* (the fetcher has returned and no fetch task is left); start returns Ok(())
DelivExit ==
    /\ deliverer.status = "running"
    /\ RecvNone(delivery_ch, ~(fetcher.status = "exited" /\ ftasks = {}))
    /\ deliverer' = [deliverer EXCEPT !.status = "exited"]
    /\ UNCHANGED <<cfg, gen, pairLog, emitted, event_ch, fetcher, ftasks, delivery_ch, dtasks, run>>
    /\ UNCHANGED unitVars

\* a plausible slip: deliveries submitted in the order they were received
TaskCanSubmitInOrder(tasks, d) == d.pc = "start" /\ \A o \in tasks : o.seq >= d.seq

\* a spawned task runs deliver_event on its own, whatever the other tasks do
TaskCanSubmit(tasks, d) == d.pc = "start"

\* deliver_event up to send_transaction(..).await?: the task goes on with its
\* transaction submitted, or it ends (a panic, or an error for the Err arm)
AfterSubmit(d, built, outcome) ==
    IF built.kind = "ok" /\ outcome = "ok" THEN {[d EXCEPT !.pc = "submitted", !.tx = Some(built.value)]} ELSE {}

\* a plausible slip: a delivery whose confirmation failed is started over
AfterReceiptRetry(d, outcome) ==
    IF outcome = "receipt" THEN {[d EXCEPT !.pc = "confirmed"]} ELSE {[d EXCEPT !.pc = "start", !.tx = None]}

\* tx.await? and ok_or_else: with a receipt the task goes on to return Ok,
\* with an error or no receipt it ends
AfterReceipt(d, outcome) ==
    IF outcome = "receipt" THEN {[d EXCEPT !.pc = "confirmed"]} ELSE {}

\* the Err arm of the task's match: "Failed to deliver event" is logged
\* (deliverer.failed keeps which delivery) and the deliverer is not touched
DelivererAfterTask(dv, d, left) ==
    IF left = {} THEN [dv EXCEPT !.failed = @ \cup {d.seq}] ELSE dv

\* a panic inside deliver_event unwinds the spawned task: the match on its
\* result is never reached and no error value is logged
\* (deliverer.panicked keeps which delivery)
DelivererAfterPanic(dv, d) == [dv EXCEPT !.panicked = @ \cup {d.seq}]

\* the step of one delivery task from its start to send_transaction
DTaskSubmitOf(d) ==
    /\ d \in dtasks
    /\ TaskCanSubmit(dtasks, d)
    /\ LET built == BuildDeliveryTx(d.delivery)
       IN  \E outcome \in (IF built.kind = "ok" THEN {"ok", "err"} ELSE {"err"}) :
             /\ dtasks' = (dtasks \ {d}) \cup AfterSubmit(d, built, outcome)
             /\ deliverer' = IF built.kind = "panic"
                             THEN DelivererAfterPanic(deliverer, d)
                             ELSE DelivererAfterTask(deliverer, d, AfterSubmit(d, built, outcome))
    /\ UNCHANGED <<cfg, gen, pairLog, emitted, event_ch, fetcher, ftasks, delivery_ch, run>>
    /\ UNCHANGED unitVars

\* a delivery task builds its transaction and calls send_transaction: a panic or
\* an error ends the task; otherwise the transaction is submitted
DTaskSubmit == \E d \in dtasks : DTaskSubmitOf(d)

\* a delivery task awaits the confirmation of its transaction
DTaskConfirm ==
    \E d \in dtasks :
      /\ d.pc = "submitted"
      /\ \E outcome \in {"receipt", "none", "err"} :
           /\ dtasks' = (dtasks \ {d}) \cup AfterReceipt(d, outcome)
           /\ deliverer' = DelivererAfterTask(deliverer, d, AfterReceipt(d, outcome))
      /\ UNCHANGED <<cfg, gen, pairLog, emitted, event_ch, fetcher, ftasks, delivery_ch, run>>
      /\ UNCHANGED unitVars

\* deliver_event returns Ok(()), "Event delivered successfully" is logged, the task ends
DTaskEnd ==
    \E d \in dtasks :
      /\ d.pc = "confirmed"
      /\ dtasks' = dtasks \ {d}
      /\ UNCHANGED <<cfg, gen, pairLog, emitted, event_ch, fetcher, ftasks, delivery_ch, deliverer, run>>
      /\ UNCHANGED unitVars

(***************************************************************************)
(* RelayerApp::run (app.rs): the three stage tasks and the select! on      *)
(* their handles                                                           *)
(***************************************************************************)
GeneratorExited == gen.status # "running"

FetcherExited == fetcher.status = "exited"

DelivererExited == deliverer.status = "exited"

\* a plausible slip: join!, which waits for all three handles
SelectReadyAll == GeneratorExited /\ FetcherExited /\ DelivererExited

\* tokio::select! over the three JoinHandles: ready when any one has completed
SelectReady == GeneratorExited \/ FetcherExited \/ DelivererExited

\* a branch of the select! runs and run returns Ok(())
RunSelect ==
    /\ run = "waiting"
    /\ SelectReady
    /\ run' = "returned"
    /\ UNCHANGED <<cfg, gen, pairLog, emitted, event_ch, fetcher, ftasks, delivery_ch, deliverer, dtasks>>
    /\ UNCHANGED unitVars

(***************************************************************************)
(* Signing with the relayer key                                            *)
(*                                                                         *)
(* deliver_event and request_remote_execution each build their own         *)
(* Provider and SignerMiddleware from the same private key and hand the    *)
(* middleware a transaction without a nonce.  The middleware fills the     *)
(* nonce from the account's transaction count on the chain, signs, and     *)
(* sends the raw transaction; the task then awaits the receipt.  signer    *)
(* holds the tasks in that sequence and each chain's transaction count for *)
(* the relayer's account.                                                  *)
(***************************************************************************)
SIdle == signer = [kind |-> "idle"]

\* MaxExec delivery tasks and the generator's request, each on one chain
SignerTaskIds == 1..(MaxExec + 1)

SignerKind(t) == IF t <= MaxExec THEN "deliver" ELSE "request"

SignerChainIds == {ChainA.chain_id, ChainB.chain_id}

SInit ==
    \E chains \in [SignerTaskIds -> SignerChainIds] :
        signer = [kind |-> "run",
                  count |-> [c \in SignerChainIds |-> 0],
                  tasks |-> [t \in SignerTaskIds |->
                               [kind |-> SignerKind(t), chain_id |-> chains[t],
                                pc |-> "start", nonce |-> None]]]

\* the transactions signed or sent for a chain and not yet mined or refused
InFlight(s, chain_id) ==
    {u \in SignerTaskIds : s.tasks[u].chain_id = chain_id /\ s.tasks[u].pc \in {"signed", "sent"}}

\* a single owner of the account's nonces would count the transactions it
\* has already handed out
AssignNonceManaged(s, t) ==
    s.count[s.tasks[t].chain_id] + Cardinality(InFlight(s, s.tasks[t].chain_id))

\* the nonce a task's transaction gets: the request carries none, so the
\* task's own middleware reads the account's transaction count
AssignNonce(s, t) == s.count[s.tasks[t].chain_id]

\* send_transaction, first half: fill the nonce and sign
SignFillOf(t) ==
    /\ signer.kind = "run"
    /\ signer.tasks[t].pc = "start"
    /\ signer' = [signer EXCEPT !.tasks[t].pc = "signed",
                                !.tasks[t].nonce = Some(AssignNonce(signer, t))]
    /\ UNCHANGED <<xin, xout, stub, cl>>
    /\ UNCHANGED pipeVars

SignFill == \E t \in SignerTaskIds : SignFillOf(t)

\* what the node answers to the raw transaction: a nonce already used is
\* refused; one that a pending transaction of the account also carries is
\* refused or kept, as the node's replacement rule decides
NodeAnswers(s, t) ==
    LET me == s.tasks[t]
    IN  IF Unwrap(me.nonce) < s.count[me.chain_id] THEN {"failed"}
        ELSE IF \E u \in SignerTaskIds \ {t} :
                    /\ s.tasks[u].chain_id = me.chain_id
                    /\ s.tasks[u].pc = "sent"
                    /\ s.tasks[u].nonce = me.nonce
             THEN {"sent", "failed"}
             ELSE {"sent"}

\* send_transaction, second half: the raw transaction reaches the node; an
\* error ends the task through `?`
SignSend ==
    \E t \in SignerTaskIds :
        /\ signer.kind = "run"
        /\ signer.tasks[t].pc = "signed"
        /\ \E answer \in NodeAnswers(signer, t) :
               signer' = [signer EXCEPT !.tasks[t].pc = answer]
        /\ UNCHANGED <<xin, xout, stub, cl>>
        /\ UNCHANGED pipeVars

\* the chain mines the pending transaction that carries the account's next
\* nonce; the others with that nonce can no longer be mined and their tasks
\* end with "Transaction receipt not found"
SignMine ==
    \E t \in SignerTaskIds :
        LET me == signer.tasks[t]
        IN  /\ signer.kind = "run"
            /\ me.pc = "sent"
            /\ me.nonce = Some(signer.count[me.chain_id])
            /\ signer' = [signer EXCEPT
                   !.count[me.chain_id] = @ + 1,
                   !.tasks = [u \in SignerTaskIds |->
                                IF u = t THEN [@[u] EXCEPT !.pc = "mined"]
                                ELSE IF /\ @[u].chain_id = me.chain_id
                                        /\ @[u].pc = "sent"
                                        /\ @[u].nonce = me.nonce
                                     THEN [@[u] EXCEPT !.pc = "failed"]
                                     ELSE @[u]]]
            /\ UNCHANGED <<xin, xout, stub, cl>>
            /\ UNCHANGED pipeVars

(***************************************************************************)
(* Specifications                                                          *)
(***************************************************************************)
CIdle == stub = [kind |-> "idle"] /\ cl = [kind |-> "idle"]

OneConfig == {[relay_pairs |-> <<PairAB, PairBA>>, info |-> TRUE]}

Init == cfg \in Configs /\ PipeInit /\ XIdle /\ CIdle /\ SIdle

Next ==
    \/ GenTick
    \/ GenPassDone
    \/ GenCheck
    \/ GenSubmit
    \/ GenConfirm
    \/ GenExtract
    \/ GenSend
    \/ FetchRecv
    \/ FetchExit
    \/ TaskRequest
    \/ TaskQuery
    \/ TaskSend
    \/ DelivRecv
    \/ DelivExit
    \/ DTaskSubmit
    \/ DTaskConfirm
    \/ DTaskEnd
    \/ RunSelect

Spec == Init /\ [][Next]_vars

InitExtract == cfg \in OneConfig /\ PipeInit /\ XInit /\ CIdle /\ SIdle

NextExtract == XExtract

SpecExtract == InitExtract /\ [][NextExtract]_vars

InitClient == cfg \in OneConfig /\ PipeInit /\ XIdle /\ CInit /\ SIdle

NextClient == CRequest \/ CQuery

SpecClient == InitClient /\ [][NextClient]_vars

\* the generator and the fetcher's receive loop, scheduled fairly: a task that
\* can run is run, so a send that has room completes and a recv that has a
\* message returns
NextGen ==
    \/ GenTick
    \/ GenPassDone
    \/ GenCheck
    \/ GenSubmit
    \/ GenConfirm
    \/ GenExtract
    \/ GenSend
    \/ FetchRecv
    \/ FetchExit

FairSpecGen == Init /\ [][NextGen]_vars /\ WF_vars(GenSend) /\ WF_vars(FetchRecv)

\* the same with every step of the generator scheduled fairly: the timer
\* ticks, and each await of a pass returns
FairSpecTicks ==
    /\ Init
    /\ [][NextGen]_vars
    /\ WF_vars(GenTick) /\ WF_vars(GenPassDone) /\ WF_vars(GenCheck)
    /\ WF_vars(GenSubmit) /\ WF_vars(GenConfirm) /\ WF_vars(GenExtract)
    /\ WF_vars(GenSend) /\ WF_vars(FetchRecv)

\* the generator over a configuration with a destination chain id above
\* u32::MAX
WideConfigs == {[relay_pairs |-> <<PairAC, PairBA>>, info |-> FALSE]}

InitWide == cfg \in WideConfigs /\ PipeInit /\ XIdle /\ CIdle /\ SIdle

SpecWide == InitWide /\ [][NextGen]_vars

\* the EventGenerator with a receiver that goes away under it: the owner of
\* event_rx is dropped (its task aborted, or torn down with the runtime) while
\* the generator's task is still being run
DropReceiver ==
    /\ fetcher.status = "running"
    /\ fetcher' = [fetcher EXCEPT !.status = "dropped"]
    /\ UNCHANGED <<cfg, gen, pairLog, emitted, event_ch, ftasks, delivery_ch, deliverer, dtasks, run>>
    /\ UNCHANGED unitVars

NextGenClosed ==
    \/ GenTick
    \/ GenPassDone
    \/ GenCheck
    \/ GenSubmit
    \/ GenConfirm
    \/ GenExtract
    \/ GenSend
    \/ FetchRecv
    \/ DropReceiver

SpecGenClosed == Init /\ [][NextGenClosed]_vars

\* the ProofFetcher on its own: the holder of event_tx sends it events, with
\* and without tx_hash, one per block
FeedEvents ==
    {RelayEvent(ChainA, "0xA1", ChainB, "0xB2", PayloadFor(k), NonceFor(k), EventMeta(IF with_hash THEN Some(k) ELSE None, 100 + k, 2, 4)) : k \in 1..MaxExec, with_hash \in BOOLEAN}

FeedEvent ==
    /\ fetcher.status = "running"
    /\ Len(event_ch) < ChanCap
    /\ \E e \in FeedEvents :
         /\ \A f \in emitted : f.meta.block_number < e.meta.block_number
         /\ emitted' = emitted \cup {e}
         /\ event_ch' = Append(event_ch, e)
    /\ UNCHANGED <<cfg, gen, pairLog, fetcher, ftasks, delivery_ch, deliverer, dtasks, run>>
    /\ UNCHANGED unitVars

NextFetch ==
    \/ FeedEvent
    \/ FetchRecv
    \/ TaskRequest
    \/ TaskQuery
    \/ TaskSend

SpecFetch == Init /\ [][NextFetch]_vars

\* the ProofFetcher under back-pressure: enough events, each with its tx_hash,
\* to fill the delivery channel, block a task on it and still have one to
\* receive, with the deliverer's loop taking requests off the channel
BurstEvents ==
    {RelayEvent(ChainA, "0xA1", ChainB, "0xB2", PayloadFor(k), NonceFor(k), EventMeta(Some(k), 110 + k, 2, 4)) : k \in 1..(ChanCap + 3)}

FeedBurst ==
    /\ fetcher.status = "running"
    /\ Len(event_ch) < ChanCap
    /\ \E e \in BurstEvents :
         /\ \A f \in emitted : f.meta.block_number < e.meta.block_number
         /\ emitted' = emitted \cup {e}
         /\ event_ch' = Append(event_ch, e)
    /\ UNCHANGED <<cfg, gen, pairLog, fetcher, ftasks, delivery_ch, deliverer, dtasks, run>>
    /\ UNCHANGED unitVars

NextBackpressure ==
    \/ FeedBurst
    \/ FetchRecv
    \/ TaskRequest
    \/ TaskQuery
    \/ TaskSend
    \/ DelivRecv

SpecBackpressure == Init /\ [][NextBackpressure]_vars

\* deliver_event on its own: one delivery task over a range of DeliveryRequests
DeliverPayloads == {<<>>, <<222, 173>>, <<1, 2, 3, 4>>, <<1, 2, 3, 4, 5>>}

DeliverProofs == {<<>>, <<9>>, <<9, 8>>}

DeliverAddresses == {"0xB2", "0xb2", "a1", "zz"}

DeliverEvents ==
    {RelayEvent(ChainA, "0xA1", dc, a, p, 7, EventMeta(Some(1), 100, 2, 3)) : dc \in {ChainA, ChainB}, a \in DeliverAddresses, p \in DeliverPayloads}

DeliverRequests ==
    {DeliveryRequest(e, proof, ProofRequest(e, 1)) : e \in DeliverEvents, proof \in DeliverProofs}

\* the delivery strategy the operator asks for, as the specification has the
\* configuration select it; RelayerConfig has no field for it and nothing in
\* EventDeliverer reads it
DeliverConfigs ==
    {[relay_pairs |-> <<PairAB, PairBA>>, info |-> TRUE, strategy |-> st] : st \in {"payload_relay", "fixed_function"}}

\* the fixed-function transaction data, as the monolithic relayer of main.rs
\* builds it: the selector of setValueFromSource(bytes) and the ABI encoding
\* of the proof (offset, length, bytes)
FixedFunctionData(proof) == <<240, 241, 242, 243>> \o <<32>> \o <<Len(proof)>> \o proof

InitDeliver ==
    /\ cfg \in DeliverConfigs
    /\ gen = GenInit
    /\ pairLog = NoLog
    /\ emitted = {}
    /\ event_ch = <<>>
    /\ fetcher = [status |-> "running", failed |-> {}]
    /\ ftasks = {}
    /\ delivery_ch = <<>>
    /\ deliverer = [status |-> "running", received |-> 1, failed |-> {}, panicked |-> {}]
    /\ dtasks \in {{[delivery |-> r, seq |-> 1, pc |-> "start", tx |-> None]} : r \in DeliverRequests}
    /\ run = "waiting"
    /\ XIdle
    /\ CIdle
    /\ SIdle

NextDeliver == DTaskSubmit \/ DTaskConfirm \/ DTaskEnd

SpecDeliver == InitDeliver /\ [][NextDeliver]_vars

\* the tasks that sign with the relayer key, interleaved as tokio runs them
InitNonce == cfg \in OneConfig /\ PipeInit /\ XIdle /\ CIdle /\ SInit

NextNonce == SignFill \/ SignSend \/ SignMine

SpecNonce == InitNonce /\ [][NextNonce]_vars

(***************************************************************************)
(* Properties                                                              *)
(***************************************************************************)
\* C1: when crossChainChecker answers canExec = false for a pair, no
\* requestRemoteExecution transaction is submitted, no RelayEvent is built and
\* none is sent on the event channel for that pair in that tick: the generator
\* goes straight on to the next pair.
C1_NoRelayWhenCanExecFalse ==
    pairLog.can_exec = "false" =>
        /\ pairLog.submitted = 0
        /\ pairLog.events = 0
        /\ pairLog.enqueued = 0
        /\ gen.pc = "pair"
        /\ gen.idx = pairLog.idx + 1
        /\ gen.event = None

C1_Witness == pairLog.can_exec = "false" /\ pairLog.idx = 2 /\ gen.idx = 3

\* C2 as stated: once a pair whose checker answered canExec = true has been
\* dealt with, exactly one requestRemoteExecution transaction was submitted for it.
C2_ExactlyOneSubmission ==
    (pairLog.can_exec = "true" /\ gen.status = "running" /\ gen.idx > pairLog.idx) => pairLog.submitted = 1

\* C2, amended: for a pair whose checker answered canExec = true at most one
\* requestRemoteExecution transaction is submitted in the tick (none when the
\* submission fails or the generator panics first), none is submitted for any
\* other answer, and a RelayEvent of the pair is built only after that one
\* transaction was submitted and confirmed.
C2_AtMostOneSubmissionBeforeEvent ==
    /\ pairLog.submitted <= 1
    /\ pairLog.confirmed <= pairLog.submitted
    /\ pairLog.submitted >= 1 => pairLog.can_exec = "true"
    /\ pairLog.events >= 1 => (pairLog.submitted = 1 /\ pairLog.confirmed = 1)
    /\ gen.pc \in {"confirm", "extract", "send"} => pairLog.submitted = 1
    /\ gen.pc \in {"extract", "send"} => pairLog.confirmed = 1
    /\ gen.event # None => pairLog.events = 1

C2_Witness == pairLog.events = 1 /\ pairLog.submitted = 1 /\ pairLog.confirmed = 1 /\ gen.pc = "send"

\* C3: whatever the receipt's logs, the log_index of the RelayEvent that
\* extract_event_details returns is that of a log from the pair's resolver whose
\* topic 0 is the hash of the event signature, never that of a log failing
\* either test, and block_number and tx_index are the receipt's.
C3_LogIndexOfMatchingLog ==
    xout.kind = "ok" =>
        LET r == xin.rpc.receipt
            m == xout.value.meta
            resolver == AddressFromStr(xin.relay_pair.source_resolver_address).addr
            good(l) == l.address = resolver /\ Len(l.topics) >= 1 /\ l.topics[1] = Keccak256("CrossChainExecRequested(uint32,bytes,uint256)")
        IN  /\ \E i \in 1..Len(r.logs) : good(r.logs[i]) /\ r.logs[i].log_index = Some(m.log_index)
            /\ \A i \in 1..Len(r.logs) : r.logs[i].log_index = Some(m.log_index) => good(r.logs[i])
            /\ r.block_number = Some(m.block_number)
            /\ r.transaction_index = m.tx_index
            /\ m.tx_hash = Some(xin.tx_hash)

C3_Witness ==
    /\ xout.kind = "ok"
    /\ Len(xin.rpc.receipt.logs) >= 2
    /\ xin.rpc.receipt.logs[1].address # AddressFromStr(xin.relay_pair.source_resolver_address).addr
    /\ xin.rpc.receipt.logs[1].topics = <<Keccak256(EventSignature)>>
    /\ xin.rpc.receipt.logs[1].log_index # None

\* a DeliveryRequest names the destination of the emitted RelayEvent it carries
C4_DeliveryFaithful(d) ==
    /\ d.event \in emitted
    /\ d.destination_chain_id = d.event.destination_chain.chain_id
    /\ d.destination_contract_address = d.event.dest_dapp_address

C5_PollsUntilReadyOrTimeout ==
    cl.kind = "client" =>
        /\ cl.c.polls <= MaxAttempts + 1
        /\ (cl.c.pc = "done" /\ ~(cl.c.result.kind = "err" /\ cl.c.result.value = "transport")) =>
             IF cl.n <= MaxAttempts
             THEN /\ cl.c.polls = cl.n + 1
                  /\ IF stub.bytes # None
                     THEN cl.c.result.kind = "ok" /\ cl.c.result.value = Unwrap(stub.bytes)
                     ELSE cl.c.result.kind = "err" /\ cl.c.result.value = "decode"
             ELSE /\ cl.c.polls = MaxAttempts + 1
                  /\ cl.c.result.kind = "err"
                  /\ cl.c.result.value = "Timeout waiting for proof"

C5_Witness ==
    /\ cl.kind = "client"
    /\ cl.c.pc = "done"
    /\ cl.n = MaxAttempts
    /\ cl.c.polls = MaxAttempts + 1
    /\ cl.c.result.kind = "ok"
    /\ Len(cl.c.result.value) = 3

\* C6: the deliverer's receive loop never waits for a delivery task: whenever a
\* DeliveryRequest is in the channel the deliverer can receive it, whatever the
\* tasks of earlier requests are doing.
C6_NoHeadOfLineBlocking ==
    (deliverer.status = "running" /\ delivery_ch # <<>>) => ENABLED DelivRecv

\* the second of two requests is confirmed while the first is still pending
C6_Witness ==
    \E d1 \in dtasks : \E d2 \in dtasks :
        /\ d1.seq + 1 = d2.seq
        /\ d1.pc \in {"start", "submitted"}
        /\ d2.pc = "confirmed"

\* C7: the transaction a delivery task submits goes to the RelayEvent's parsed
\* dapp address, is signed under the destination chain's id, and its data is
\* the execution payload followed by the proof, byte for byte.
C7_DeliveryTransaction ==
    \A d \in dtasks :
        d.tx # None =>
            LET tx == Unwrap(d.tx)
                payload == d.delivery.event.exec_payload
            IN  /\ AddressFromStr(d.delivery.event.dest_dapp_address).ok
                /\ tx.to = AddressFromStr(d.delivery.event.dest_dapp_address).addr
                /\ tx.chain_id = d.delivery.event.destination_chain.chain_id
                /\ Len(tx.data) = Len(payload) + Len(d.delivery.proof)
                /\ SubSeq(tx.data, 1, Len(payload)) = payload
                /\ SubSeq(tx.data, Len(payload) + 1, Len(tx.data)) = d.delivery.proof

C7_Witness ==
    \E d \in dtasks :
        /\ d.pc = "submitted"
        /\ d.tx # None
        /\ d.delivery.event.dest_dapp_address = "0xb2"
        /\ Len(d.delivery.event.exec_payload) = 5
        /\ Len(d.delivery.proof) = 2

\* C8 as stated: when a pass over the pairs has ended, check_cross_chain_events
\* was called for every pair whose chains are configured, whatever went wrong
\* for the pairs before it.
C8_LaterPairsStillChecked ==
    (gen.status = "running" /\ gen.pc = "sleep" /\ gen.last # "none") =>
        \A i \in 1..Len(cfg.relay_pairs) :
            (cfg.relay_pairs[i].source_chain_id \in DOMAIN Chains /\ cfg.relay_pairs[i].dest_chain_id \in DOMAIN Chains) => i \in gen.visited

\* the step that leaves event_tx.send, and where every returned event is
C9_SendStep ==
    (gen.pc = "send" /\ gen'.pc # "send") =>
        /\ Len(event_ch) < ChanCap
        /\ event_ch' = Append(event_ch, Unwrap(gen.event))
        /\ pairLog'.enqueued = 1

C9_Accounted ==
    \A e \in emitted :
        \/ gen.pc = "send" /\ gen.event = Some(e)
        \/ \E i \in 1..Len(event_ch) : event_ch[i] = e
        \/ \E t \in ftasks : t.event = e

\* C9: the generator drops no RelayEvent: it leaves event_tx.send only by
\* appending the event to the channel, which then had room; every event
\* extract_event_details returned is waiting in that send, in the channel or
\* with the fetcher; and a waiting send is eventually completed.
C9_NoEventDropped ==
    /\ [][C9_SendStep]_vars
    /\ []C9_Accounted
    /\ (gen.pc = "send") ~> (pairLog.enqueued = 1)

\* the send is waiting on a full channel
C9_Witness == gen.pc = "send" /\ Len(event_ch) = ChanCap /\ gen.event # None

\* no step undoes the exit of a stage or the return of run
C10_NoRestart ==
    /\ gen.status # "running" => gen'.status = gen.status
    /\ fetcher.status = "exited" => fetcher'.status = "exited"
    /\ deliverer.status = "exited" => deliverer'.status = "exited"
    /\ run = "returned" => run' = "returned"

\* C10: as soon as one of the three stage tasks has finished, run can return,
\* and it returns only then; a stage that has finished is never started again
\* and run, once returned, stays returned.
C10_AnyStageExitIsFatal ==
    /\ []((run = "waiting" /\ (gen.status # "running" \/ fetcher.status = "exited" \/ deliverer.status = "exited")) => ENABLED RunSelect)
    /\ [](run = "returned" => (gen.status # "running" \/ fetcher.status = "exited" \/ deliverer.status = "exited"))
    /\ [][C10_NoRestart]_vars

\* run has returned on the generator's exit alone
C10_Witness == run = "returned" /\ gen.status = "panicked" /\ fetcher.status = "running" /\ deliverer.status = "running"

\* C11 as stated: once event_tx.send has failed because the channel to the
\* ProofFetcher is closed, the generator's start loop has terminated.
C11_ClosureEndsLoop ==
    (fetcher.status = "dropped" /\ pairLog.events = 1 /\ pairLog.enqueued = 0 /\ gen.pc # "send") => gen.status # "running"

\* a step in which a fetch task fails: only that task goes, the loop and the
\* other tasks are as they were
C12_TaskErrorStep ==
    (fetcher'.failed # fetcher.failed) =>
        /\ fetcher'.status = fetcher.status
        /\ event_ch' = event_ch
        /\ delivery_ch' = delivery_ch
        /\ \E t \in ftasks :
             /\ ftasks' = ftasks \ {t}
             /\ \E f \in fetcher'.failed : f.tx_hash = t.request.tx_hash /\ fetcher'.failed = fetcher.failed \cup {f}

\* C12: an error in one proof-fetch task (transport, decoding, timeout) ends
\* only that task: the step leaves the fetcher's loop, both channels and every
\* other task untouched, and the loop can still receive whenever an event is
\* waiting, whatever the tasks are doing.
C12_FetchErrorScopedToTask ==
    /\ []((fetcher.status = "running" /\ event_ch # <<>>) => ENABLED FetchRecv)
    /\ [](fetcher.status = "exited" => gen.status # "running")
    /\ [][C12_TaskErrorStep]_vars

\* one task has failed; the task of a later event has its proof
C12_Witness ==
    /\ fetcher.status = "running"
    /\ \E f \in fetcher.failed : \E t \in ftasks : t.request.tx_hash > f.tx_hash /\ t.pc = "send"

\* C14: once the proof fetch of a RelayEvent has failed (timeout after the
\* retry ceiling, or a failed request or poll) the event is gone for good: no
\* task of it is left to call log_requestProof or log_queryProof again, it is
\* not back in the event channel, and no DeliveryRequest of it exists anywhere.
C14_FailedFetchIsFinal ==
    \A f \in fetcher.failed :
        /\ \A t \in ftasks : t.request.tx_hash # f.tx_hash /\ t.event.meta.tx_hash # Some(f.tx_hash)
        /\ \A i \in 1..Len(event_ch) : event_ch[i].meta.tx_hash # Some(f.tx_hash)
        /\ \A i \in 1..Len(delivery_ch) : delivery_ch[i].event.meta.tx_hash # Some(f.tx_hash)
        /\ \A d \in dtasks : d.delivery.event.meta.tx_hash # Some(f.tx_hash)

\* a fetch has run into the retry ceiling, and the pipeline has moved on
C14_Witness ==
    /\ \E f \in fetcher.failed : f.error = "Timeout waiting for proof"
    /\ \E d \in dtasks : d.pc = "submitted"

\* a receive of an event without tx_hash: nothing is spawned, sent or stopped
C15_DropStep ==
    (event_ch # <<>> /\ event_ch' = Tail(event_ch) /\ Head(event_ch).meta.tx_hash = None) =>
        /\ ftasks' = ftasks
        /\ delivery_ch' = delivery_ch
        /\ fetcher' = fetcher

\* C15: a RelayEvent received without tx_hash is dropped: the receive spawns no
\* task and sends nothing, no task or DeliveryRequest ever exists for such an
\* event, and the loop stays able to receive the next event.
C15_EventWithoutHashDropped ==
    /\ [][C15_DropStep]_vars
    /\ [](\A e \in emitted : e.meta.tx_hash = None =>
            /\ \A t \in ftasks : t.event.meta.block_number # e.meta.block_number
            /\ \A i \in 1..Len(delivery_ch) : delivery_ch[i].event.meta.block_number # e.meta.block_number)
    /\ []((fetcher.status = "running" /\ event_ch # <<>>) => ENABLED FetchRecv)

\* an event without tx_hash was received and dropped, the next one has a task
C15_Witness ==
    \E e \in emitted :
        /\ e.meta.tx_hash = None
        /\ \A i \in 1..Len(event_ch) : event_ch[i] # e
        /\ \E t \in ftasks : t.event.meta.block_number > e.meta.block_number

\* a step of the deliverer's tasks: a failure takes only its own task, a
\* transaction is submitted only by a task at its start, and a task is at its
\* start only when it is the one just received
C13_DeliveryStep ==
    /\ (deliverer'.failed # deliverer.failed) =>
           /\ deliverer'.status = deliverer.status
           /\ deliverer'.received = deliverer.received
           /\ delivery_ch' = delivery_ch
           /\ \E d \in dtasks : dtasks' = dtasks \ {d} /\ deliverer'.failed = deliverer.failed \cup {d.seq}
    /\ \A n \in dtasks' :
           /\ n.pc = "submitted" => (n \in dtasks \/ \E d \in dtasks : d.seq = n.seq /\ d.pc = "start")
           /\ n.pc = "start" => (n \in dtasks \/ (n.seq = deliverer.received + 1 /\ deliverer'.received = n.seq))

\* C13: a failed delivery is scoped to its task: the failure is logged and
\* takes only that task, the request is never submitted again (no task of a
\* failed delivery exists, and a transaction is only ever submitted by a task
\* at its start, which it is once), the receive loop can still receive, and
\* the other deliveries are untouched.
C13_DeliveryErrorScopedToTask ==
    /\ [](\A d \in dtasks : d.seq \notin deliverer.failed /\ d.seq <= deliverer.received)
    /\ [](\A d1 \in dtasks : \A d2 \in dtasks : d1.seq = d2.seq => d1 = d2)
    /\ []((deliverer.status = "running" /\ delivery_ch # <<>>) => ENABLED DelivRecv)
    /\ [][C13_DeliveryStep]_vars

\* one delivery has failed; another, received with it, is confirmed
C13_Witness ==
    /\ deliverer.status = "running"
    /\ \E q \in deliverer.failed : \E d \in dtasks : d.seq # q /\ d.pc = "confirmed"

\* C16 as stated: the data of a submitted delivery transaction follows the
\* configured strategy: the ABI-encoded call with the proof under
\* fixed-function, payload followed by proof under payload-relay.
C16_StrategyFollowsConfiguration ==
    \A d \in dtasks :
        d.tx # None =>
            Unwrap(d.tx).data = IF cfg.strategy = "fixed_function"
                                THEN FixedFunctionData(d.delivery.proof)
                                ELSE d.delivery.event.exec_payload \o d.delivery.proof

\* where the one pass of check_all_chains stands: asleep between passes with
\* no pair in hand, or at one pair, with exactly the pairs before it visited
C17_OnePass ==
    gen.status = "running" =>
        /\ gen.pc = "sleep" => (gen.chk = NoCheck /\ gen.event = None)
        /\ gen.pc = "pair" => gen.visited = 1..(gen.idx - 1)
        /\ gen.pc \in {"submit", "confirm", "extract", "send"} =>
               (gen.idx \in 1..Len(cfg.relay_pairs) /\ gen.visited = 1..gen.idx /\ pairLog.idx = gen.idx)

\* a pass starts only from the sleep between passes, and the pair in hand
\* moves one place at a time
C17_PassStep ==
    /\ (gen'.idx = 1 /\ gen'.pc = "pair" /\ gen # gen') => (gen.pc = "sleep" /\ gen.status = "running")
    /\ gen'.idx # gen.idx => ((gen.pc = "sleep" /\ gen'.idx = 1) \/ gen'.idx = gen.idx + 1)
    /\ gen'.visited # gen.visited => ((gen.pc = "sleep" /\ gen'.visited = {}) \/ gen'.visited = gen.visited \cup {gen.idx})

\* C17: ticks never overlap: there is one pass of check_all_chains at a time,
\* a new one starts only when the last has returned (a send waiting on a full
\* channel holds it back), and within a pass the pairs are taken one at a time
\* in the configured order.
C17_TicksDoNotOverlap ==
    /\ []C17_OnePass
    /\ [][C17_PassStep]_vars

\* the pass is held at its second pair by a send on a full channel
C17_Witness ==
    /\ gen.pc = "send"
    /\ gen.idx = 2
    /\ gen.visited = {1, 2}
    /\ Len(event_ch) = ChanCap
    /\ ~ENABLED GenTick

\* C18: delivery order is not guaranteed: nothing sequences the tasks, so a
\* delivery task at its start can always submit, whatever the deliveries
\* received before it are doing, and a later-emitted RelayEvent can have its
\* destination transaction submitted before an earlier one (the witness).
C18_NoDeliveryOrdering ==
    \A d \in dtasks : d.pc = "start" => ENABLED DTaskSubmitOf(d)

\* the transaction of the second event emitted is submitted while the first
\* event is still with its fetch task, in the delivery channel or unsubmitted
C18_Witness ==
    /\ \E d \in dtasks : d.pc = "submitted" /\ d.delivery.event.meta.tx_hash = Some(2)
    /\ \E e \in emitted :
         /\ e.meta.tx_hash = Some(1)
         /\ \/ \E t \in ftasks : t.event = e
            \/ \E i \in 1..Len(delivery_ch) : delivery_ch[i].event = e
            \/ \E d \in dtasks : d.delivery.event = e /\ d.pc = "start"

\* a task that fills its nonce while a transaction of the same account on the
\* same chain is in flight with the account's current count gets that same
\* nonce
C19_FillStep ==
    \A t \in SignerTaskIds :
        (signer.kind = "run" /\ signer.tasks[t].pc = "start" /\ signer'.tasks[t].pc = "signed") =>
            \A u \in InFlight(signer, signer.tasks[t].chain_id) :
                signer.tasks[u].nonce = Some(signer.count[signer.tasks[u].chain_id]) =>
                    signer'.tasks[t].nonce = signer.tasks[u].nonce

\* no task waits for another before it reads the account nonce
C19_FillFree ==
    signer.kind = "run" =>
        \A t \in SignerTaskIds : signer.tasks[t].pc = "start" => ENABLED SignFillOf(t)

\* C19: nonce assignment for a (chain, key) pair is not serialized: a task
\* submitting with the relayer key reads the account nonce whatever the other
\* tasks on that chain are doing, so two delivery tasks, or a delivery task
\* and the generator's requestRemoteExecution, can read the same nonce before
\* either submits and have transactions in flight with the same nonce.
C19_NonceAssignmentNotSerialized ==
    /\ []C19_FillFree
    /\ [][C19_FillStep]_vars

\* two delivery tasks and the generator's request, all for one chain: one
\* transaction is with the node, the other two are signed, all three carry
\* the same nonce
C19_Witness ==
    /\ signer.kind = "run"
    /\ \E d1, d2, g \in SignerTaskIds :
         /\ d1 # d2
         /\ signer.tasks[d1].kind = "deliver" /\ signer.tasks[d1].pc = "sent"
         /\ signer.tasks[d2].kind = "deliver" /\ signer.tasks[d2].pc = "signed"
         /\ signer.tasks[g].kind = "request" /\ signer.tasks[g].pc = "signed"
         /\ signer.tasks[d2].chain_id = signer.tasks[d1].chain_id
         /\ signer.tasks[g].chain_id = signer.tasks[d1].chain_id
         /\ signer.tasks[d2].nonce = signer.tasks[d1].nonce
         /\ signer.tasks[g].nonce = signer.tasks[d1].nonce

\* the receive loop of the fetcher depends on the event channel alone, and a
\* task waiting to send depends on room in the delivery channel alone
C20_LoopFree ==
    /\ (fetcher.status = "running" /\ event_ch # <<>>) => ENABLED FetchRecv
    /\ ((\E t \in ftasks : t.pc = "send") /\ Len(delivery_ch) < ChanCap) => ENABLED TaskSend

\* a task at its send stays while the delivery channel is full, and when it
\* ends with the deliverer receiving, its DeliveryRequest is the one appended
C20_BlockedSendStep ==
    \A t \in ftasks :
        t.pc = "send" =>
            /\ Len(delivery_ch) = ChanCap => t \in ftasks'
            /\ (t \notin ftasks' /\ deliverer.status = "running") =>
                   delivery_ch' = Append(delivery_ch, Unwrap(t.delivery))

\* C20: a full delivery channel blocks only the fetch task that is sending
\* its DeliveryRequest: the loop of ProofFetcher::start still receives
\* RelayEvents and spawns tasks while the channel is full, and the blocked
\* task's DeliveryRequest is enqueued when there is room, never dropped.
C20_FullDeliveryChannelBlocksOnlyTheTask ==
    /\ []C20_LoopFree
    /\ [][C20_BlockedSendStep]_vars

\* the delivery channel is full, a task is blocked on it, the loop has
\* spawned the task of a later event and has one more event to receive
C20_Witness ==
    /\ Len(delivery_ch) = ChanCap
    /\ event_ch # <<>>
    /\ \E t, u \in ftasks :
         /\ t.pc = "send"
         /\ u.pc = "fetch" /\ u.c = ClientStart
         /\ u.event.meta.block_number > t.event.meta.block_number
         /\ \A i \in 1..Len(delivery_ch) : delivery_ch[i].event.meta.block_number < u.event.meta.block_number

\* the generator has given up on pair p after canExec = true without building
\* an event: a step from requestRemoteExecution to the extraction failed
C21_FailedAt(p) ==
    /\ gen.status = "running" /\ gen.pc = "pair" /\ gen.idx = p + 1
    /\ pairLog.idx = p /\ pairLog.can_exec = "true" /\ pairLog.events = 0

\* the generator is at pair p in the for loop, about to check it
C21_AboutToCheck(p) ==
    gen.status = "running" /\ gen.pc = "pair" /\ gen.idx = p /\ p \notin gen.visited

\* an event built for the pair means its transaction was sent and confirmed
C21_EventNeedsEveryStep ==
    pairLog.events > 0 => (pairLog.can_exec = "true" /\ pairLog.submitted = 1 /\ pairLog.confirmed = 1)

\* C21: a RelayEvent is emitted for a pair in a tick only if the
\* requestRemoteExecution transaction was sent and confirmed and the log was
\* extracted from its receipt; when one of these steps fails no RelayEvent is
\* emitted for the pair in that tick, and the pair is checked again on the
\* next tick.
C21_FailedPairCheckedNextTick ==
    /\ []C21_EventNeedsEveryStep
    /\ \A p \in 1..3 : C21_FailedAt(p) ~> C21_AboutToCheck(p)

\* C22: when the receipt holds more than one log from the resolver with the
\* CrossChainExecRequested signature as topic 0, the extraction flags it as
\* anomalous: it does not return an event built from one of the matches.
C22_MultipleMatchesFlagged ==
    xout.kind = "ok" =>
        Cardinality({i \in 1..Len(xin.rpc.receipt.logs) : LogMatches(xin.rpc.receipt.logs[i], xin.relay_pair)}) = 1

\* C23: whatever the length of the execution payload, a delivery that fails
\* ends with an error value that the task logs; no delivery task ends by a
\* panic.
C23_NoDeliveryPanic == deliverer.panicked = {}

\* C24: whatever nonce crossChainChecker returns, values of 2^64 and more
\* included, processing the pair ends with a RelayEvent or with a per-pair
\* error; the EventGenerator's loop is never taken down by it.
C24_NonceNeverCrashesGenerator == gen.status # "panicked"

\* C25: for every configured pair and every 64-bit chain id, the destination
\* chain id given to crossChainChecker and the one given to
\* requestRemoteExecution are the same value, the pair's configured
\* destination chain id.
C25_SameDestinationChainId ==
    pairLog.idx > 0 =>
        /\ pairLog.checker_arg # None => pairLog.checker_arg = Some(cfg.relay_pairs[pairLog.idx].dest_chain_id)
        /\ pairLog.exec_arg # None => pairLog.exec_arg = pairLog.checker_arg

\* the answer of crossChainChecker is kept from the check of a pair until that
\* pair is done, and the event built for the pair takes its payload and nonce
\* from it
C26_EmitStep ==
    /\ gen'.chk # gen.chk =>
           \/ gen'.chk = NoCheck
           \/ gen.pc = "pair" /\ gen'.pc = "submit" /\ gen'.idx = gen.idx /\ gen.chk = NoCheck
    /\ \A e \in emitted' \ emitted :
           /\ gen.pc = "extract" /\ gen.chk.kind = "ok" /\ gen.chk.can_exec
           /\ e.exec_payload = gen.chk.exec_payload
           /\ e.nonce = gen.chk.nonce
           /\ e.source_chain.chain_id = cfg.relay_pairs[gen.idx].source_chain_id

\* every copy of an event in the pipeline is an emitted event, and an emitted
\* event carries the payload and nonce of the answer its transaction followed
C26_Carried ==
    /\ \A e \in emitted :
           /\ e.exec_payload = PayloadFor(Unwrap(e.meta.tx_hash))
           /\ e.nonce = NonceFor(Unwrap(e.meta.tx_hash))
    /\ \A i \in 1..Len(event_ch) : event_ch[i] \in emitted
    /\ \A t \in ftasks : t.event \in emitted
    /\ \A i \in 1..Len(delivery_ch) : delivery_ch[i].event \in emitted
    /\ \A d \in dtasks : d.delivery.event \in emitted

\* C26: the execution payload and nonce of an emitted RelayEvent are the
\* ones crossChainChecker returned for the same pair in the same tick, and
\* they are unchanged when the deliverer uses them.
C26_PayloadAndNonceFromChecker ==
    /\ []C26_Carried
    /\ [][C26_EmitStep]_vars

\* the second canExec answer's event has reached a delivery task that has
\* submitted, after the first answer's event was emitted too
C26_Witness ==
    /\ \E e \in emitted : e.exec_payload = PayloadFor(1)
    /\ \E d \in dtasks :
         /\ d.pc = "submitted"
         /\ d.delivery.event.exec_payload = PayloadFor(2)
         /\ d.delivery.event.nonce = NonceFor(2)

\* one call of log_queryProof: a successful end needs the status "ready" or
\* "complete"; any other status answered by the service leads to the next poll
\* or, at the ceiling, to the timeout; a failed call ends the fetch at once;
\* and a fetch that has ended makes no further call
C27_QueryStep ==
    cl.kind = "client" =>
        /\ (cl.c.pc = "query" /\ cl'.c.pc = "done" /\ cl'.c.result.kind = "ok") =>
               ServiceAnswer(stub).status \in {"ready", "complete"}
        /\ (cl.c.pc = "query" /\ stub' # stub) =>
               /\ ServiceAnswer(stub).status \notin {"ready", "complete"}
               /\ cl'.c.attempts = cl.c.attempts + 1
               /\ IF cl.c.attempts < MaxAttempts
                  THEN cl'.c.pc = "query" /\ cl'.c.job_id = cl.c.job_id
                  ELSE cl'.c.pc = "done" /\ cl'.c.result = Result("err", "Timeout waiting for proof")
        /\ (cl.c.pc = "query" /\ cl'.c.pc = "done" /\ cl'.c.result = Result("err", "transport")) =>
               (cl'.c.polls = cl.c.polls + 1 /\ cl'.c.attempts = cl.c.attempts /\ stub' = stub)
        /\ cl.c.pc = "done" => cl' = cl

\* C27: in fetch_proof only the statuses "ready" and "complete" end the
\* polling successfully; every other status, those that signal a failure
\* included, is polled again after the delay until the retry ceiling, and an
\* error of a log_queryProof call itself ends the fetch at once.
C27_OnlyReadyEndsPolling == [][C27_QueryStep]_vars

\* the service answered "failed" more than once, was polled again each time,
\* and the fetch ended with the proof
C27_Witness ==
    /\ cl.kind = "client"
    /\ stub.wait_status = "failed"
    /\ cl.n >= 2
    /\ cl.c.pc = "done"
    /\ cl.c.result.kind = "ok"
    /\ cl.c.polls = cl.n + 1

\* how far an event has come: 0 with the generator, 1 in the event channel,
\* 2 with a fetch task that has not requested its proof, 3 with one that has
\* its job, 4 with one sending the DeliveryRequest, 5 in the delivery channel,
\* 6 with a delivery task at its start, 7 submitted, 8 confirmed, 9 nowhere
C28_Stage(e, g, ech, ft, dch, dt) ==
    IF g.event = Some(e) THEN 0
    ELSE IF \E i \in 1..Len(ech) : ech[i] = e THEN 1
    ELSE IF \E t \in ft : t.event = e /\ t.pc = "fetch" /\ t.c.pc = "request" THEN 2
    ELSE IF \E t \in ft : t.event = e /\ t.pc = "fetch" THEN 3
    ELSE IF \E t \in ft : t.event = e THEN 4
    ELSE IF \E i \in 1..Len(dch) : dch[i].event = e THEN 5
    ELSE IF \E d \in dt : d.delivery.event = e /\ d.pc = "start" THEN 6
    ELSE IF \E d \in dt : d.delivery.event = e /\ d.pc = "submitted" THEN 7
    ELSE IF \E d \in dt : d.delivery.event = e THEN 8
    ELSE 9

\* an emitted event is held in one place only
C28_OneHolder ==
    \A e \in emitted :
        Cardinality({i \in 1..Len(event_ch) : event_ch[i] = e})
          + Cardinality({t \in ftasks : t.event = e})
          + Cardinality({i \in 1..Len(delivery_ch) : delivery_ch[i].event = e})
          + Cardinality({d \in dtasks : d.delivery.event = e})
          + (IF gen.event = Some(e) THEN 1 ELSE 0) <= 1

\* an event never goes back: the request of its proof (2 to 3), the send of
\* its DeliveryRequest (4 to 5) and the submission of its transaction (6 to 7)
\* are each passed once at most
C28_ForwardStep ==
    \A e \in emitted :
        C28_Stage(e, gen', event_ch', ftasks', delivery_ch', dtasks') >= C28_Stage(e, gen, event_ch, ftasks, delivery_ch, dtasks)

\* C28: at most once per event: for every RelayEvent the generator emits, in
\* every interleaving, at most one log_requestProof job is created, at most
\* one DeliveryRequest is sent and at most one destination transaction is
\* submitted.
C28_AtMostOncePerEvent ==
    /\ []C28_OneHolder
    /\ [][C28_ForwardStep]_vars

\* one event's transaction is confirmed while another event's fetch task is
\* polling its own job
C28_Witness ==
    /\ \E d \in dtasks : d.pc = "confirmed"
    /\ \E t \in ftasks : t.pc = "fetch" /\ t.c.pc = "query" /\ t.c.attempts > 0

\* the job the proving service creates for the coordinates of an event
C29_JobOf(event) ==
    ServiceJobId(<<event.source_chain.chain_id, event.meta.block_number, event.meta.tx_index, event.meta.log_index>>)

\* the proof of a DeliveryRequest is the one the service holds for the job of
\* the event the request carries
C29_ProofOfItsEvent(d) == d.proof = ProofFor(C29_JobOf(d.event))

\* C29: with any number of fetch tasks running, a task polls the job id that
\* log_requestProof returned for its own event and no other task's, and the
\* proof in a DeliveryRequest is the one log_queryProof returned for that job:
\* a proof is never attached to another event.
C29_ProofMatchesEvent ==
    /\ \A t \in ftasks :
         /\ (t.pc = "fetch" /\ t.c.pc = "query") => t.c.job_id = C29_JobOf(t.event)
         /\ t.delivery # None => C29_ProofOfItsEvent(Unwrap(t.delivery))
    /\ \A t, u \in ftasks :
         (t.event # u.event /\ t.c.pc = "query" /\ u.c.pc = "query") => t.c.job_id # u.c.job_id
    /\ \A i \in 1..Len(delivery_ch) : C29_ProofOfItsEvent(delivery_ch[i])
    /\ \A d \in dtasks : C29_ProofOfItsEvent(d.delivery)

\* two fetch tasks at once: one polling its job after a "pending", the other
\* holding the DeliveryRequest built from its own proof
C29_Witness ==
    \E t, u \in ftasks :
        /\ t.event # u.event
        /\ t.pc = "fetch" /\ t.c.pc = "query" /\ t.c.attempts > 0
        /\ u.pc = "send" /\ u.delivery # None

\* a receive loop returns only from a channel that is closed and empty
C30_ExitStep ==
    /\ (fetcher.status = "running" /\ fetcher'.status = "exited") =>
           (event_ch = <<>> /\ gen.status # "running")
    /\ (deliverer.status = "running" /\ deliverer'.status = "exited") =>
           (delivery_ch = <<>> /\ fetcher.status = "exited" /\ ftasks = {})

\* while an item is in its channel a running loop can receive it and cannot
\* return, whether or not the senders are gone; a loop that has returned left
\* nothing behind
C30_Drained ==
    /\ (fetcher.status = "running" /\ event_ch # <<>>) => (ENABLED FetchRecv /\ ~ENABLED FetchExit)
    /\ (deliverer.status = "running" /\ delivery_ch # <<>>) => (ENABLED DelivRecv /\ ~ENABLED DelivExit)
    /\ fetcher.status = "exited" => event_ch = <<>>
    /\ deliverer.status = "exited" => (delivery_ch = <<>> /\ ftasks = {})

\* C30: the receive loops of ProofFetcher and EventDeliverer end only when
\* their channel is closed and empty: what was enqueued when the senders were
\* dropped is still received and gets its task before the loop returns, and
\* the loop returns Ok.
C30_LoopsEndOnClosedAndEmpty ==
    /\ []C30_Drained
    /\ [][C30_ExitStep]_vars

\* the generator is gone with an event still in the channel, which the
\* fetcher's loop has yet to receive
C30_Witness ==
    /\ gen.status = "panicked"
    /\ event_ch # <<>>
    /\ fetcher.status = "running"
    /\ ENABLED FetchRecv

=============================================================================
